---- MODULE Spec2Model ----
(***************************************************************************)
(* Valve / Valved (src/wrapper.rs) of stream-cancel.                       *)
(*                                                                         *)
(* A Valve holds one Tripwire (a clone of a shared one-shot signal); wrap  *)
(* composes a stream with a clone of that Tripwire through take_until, and *)
(* Valved::poll_next forwards every poll to that TakeUntil.  Tripwire,     *)
(* Trigger and TakeUntil live in other files of the crate; they are        *)
(* modelled here from their documented contract (sections 4.1 and 4.3 of   *)
(* the specification).                                                     *)
(*                                                                         *)
(* A poll is not atomic: it reads the signal's flag, registers its waker   *)
(* under the registry's lock, and then polls the wrapped stream.           *)
(* Trigger::close stores the flag and then wakes the registered tasks.     *)
(* These steps interleave freely between instances.                        *)
(***************************************************************************)
EXTENDS Integers, Sequences, FiniteSets

\* Bounds of the model.
MaxSignals == 2     \* signal lineages (calls of Tripwire::new)
MaxValves == 2      \* Valve handles alive at once
MaxStreams == 2     \* Valved streams ever created
MaxLen == 1         \* items of a finite wrapped stream
MaxPolls == 2       \* polls answered, over all streams, before the cap
MaxFairSignals == 1 \* signal lineages in the runs under fairness

Signals == 1..MaxSignals
Streams == 1..MaxStreams

VARIABLES
    signal,     \* signal[g]: the shared Signal State: [state, waiters]
    trigger,    \* trigger[g]: the Trigger of lineage g
    valve,      \* valve[g]: how many Valve handles hold lineage g's Tripwire
    valved      \* valved[s]: a Valved stream and the task that polls it

vars == <<signal, trigger, valve, valved>>

----------------------------------------------------------------------------
\* Poll results: Poll::Pending, Poll::Ready(None), Poll::Ready(Some(k)).
Pending == <<"Pending", 0>>
EndOfData == <<"None", 0>>
Item(k) == <<"Some", k>>
IsItem(r) == r[1] = "Some"

\* The streams a caller may hand to wrap: finite ones yielding 1..len, and an
\* endless one yielding 1, 2, 3, ...
StreamInputs ==
    [endless : {FALSE}, len : 0..MaxLen, pos : {0}]
        \cup [endless : {TRUE}, len : {0}, pos : {0}]

\* One poll of a wrapped stream: the result and the stream afterwards.
StreamPollNext(st, ready) ==
    IF ~ready THEN [res |-> Pending, stream |-> st]
    ELSE IF st.endless \/ st.pos < st.len
         THEN [res |-> Item(st.pos + 1),
               stream |-> [st EXCEPT !.pos = st.pos + 1]]
         ELSE [res |-> EndOfData, stream |-> st]

----------------------------------------------------------------------------
\* Tripwire::new: a signal in Armed with an empty waiter registry.
TripwireNew == [state |-> "Armed", waiters |-> {}]

\* A faulty wrap: the stream is tied to the tripwire of another lineage.
WrapOtherTripwire(tw, stream) ==
    [stream |-> stream, until |-> (tw % MaxSignals) + 1, done |-> FALSE]

\* A faulty wrap: the stream is polled once while it is being wrapped.
WrapPollsStream(tw, stream) ==
    [stream |-> StreamPollNext(stream, TRUE).stream, until |-> tw, done |-> FALSE]

\* Valve::wrap: stream.take_until(self.0.clone()).
Wrap(tw, stream) ==
    [stream |-> stream, until |-> tw, done |-> FALSE]

\* A Valved and the task polling it:
\*   st        "none" (not created yet), "live", "dropped";
\*   tu        field 0, the TakeUntil: the wrapped stream, the Tripwire clone
\*             (the lineage it watches) and whether it has finished;
\*   pc        the step the poll under way has reached ("idle": none);
\*   runnable  whether the task has been woken, or goes on polling by itself;
\*   origin    the lineage of the Valve it was built from (history);
\*   made      how it was made: "wrap", "new" or "clone" (history);
\*   late      whether the signal had fired when it was made (history);
\*   start     where its wrapped stream's cursor stood when it was made
\*             (history; not 0 for the clone of a stream that had advanced);
\*   out       the results its polls returned (history);
\*   inner     the answers its wrapped stream gave (history).
NoValved ==
    [st |-> "none", origin |-> 0, made |-> "none", late |-> FALSE, start |-> 0,
     pc |-> "idle", runnable |-> FALSE, out |-> << >>, inner |-> << >>,
     tu |-> [stream |-> [endless |-> FALSE, len |-> 0, pos |-> 0],
             until |-> 0, done |-> FALSE]]

\* A Valved that has been dropped: its fields are gone.
DroppedValved == [NoValved EXCEPT !.st = "dropped"]

NewValved(g, how, takeUntil) ==
    [st |-> "live", origin |-> g, made |-> how,
     late |-> (signal[g].state = "Fired"), start |-> takeUntil.stream.pos,
     pc |-> "idle", runnable |-> FALSE, out |-> << >>, inner |-> << >>,
     tu |-> takeUntil]

Init ==
    /\ signal = [g \in Signals |-> TripwireNew]
    /\ trigger = [g \in Signals |-> "none"]
    /\ valve = [g \in Signals |-> 0]
    /\ valved = [s \in Streams |-> NoValved]

FreeSignal(g) == trigger[g] = "none" /\ \A k \in 1..(g - 1) : trigger[k] # "none"
RECURSIVE SumValves(_)
SumValves(n) == IF n = 0 THEN 0 ELSE valve[n] + SumValves(n - 1)
FreeHandle == SumValves(MaxSignals) < MaxValves
FreeStream(s) ==
    valved[s].st = "none" /\ \A k \in 1..(s - 1) : valved[k].st # "none"

\* Valve::new: a fresh signal, its Trigger, and a Valve holding the Tripwire.
ValveNewIn(lineages) ==
    \E g \in lineages :
        /\ FreeSignal(g) /\ FreeHandle
        /\ signal' = [signal EXCEPT ![g] = TripwireNew]
        /\ trigger' = [trigger EXCEPT ![g] = "live"]
        /\ valve' = [valve EXCEPT ![g] = 1]
        /\ UNCHANGED valved

ValveNew == ValveNewIn(Signals)

\* Valve::clone (derived): one more handle on the same Tripwire.
ValveClone ==
    \E g \in Signals :
        /\ valve[g] > 0 /\ FreeHandle
        /\ valve' = [valve EXCEPT ![g] = @ + 1]
        /\ UNCHANGED <<signal, trigger, valved>>

\* Dropping a Valve handle.
ValveDrop ==
    \E g \in Signals :
        /\ valve[g] > 0
        /\ valve' = [valve EXCEPT ![g] = @ - 1]
        /\ UNCHANGED <<signal, trigger, valved>>

\* Valve::wrap(&self, stream), on a handle of lineage g.
ValveWrap ==
    \E g \in Signals, s \in Streams, input \in StreamInputs :
        /\ valve[g] > 0 /\ FreeStream(s)
        /\ valved' = [valved EXCEPT ![s] = NewValved(g, "wrap", Wrap(g, input))]
        /\ UNCHANGED <<signal, trigger, valve>>

\* A faulty Valved::new: the Trigger returned comes from one Valve::new and
\* the Valve that wraps the stream from another.
ValvedNewOtherValve(lineages) ==
    \E g \in lineages, s \in Streams, input \in StreamInputs :
        /\ FreeSignal(g) /\ FreeStream(s)
        /\ signal' = [signal EXCEPT ![g] = TripwireNew]
        /\ trigger' = [trigger EXCEPT ![g] = "live"]
        /\ valved' = [valved EXCEPT ![s] =
                NewValved(g, "new", Wrap((g % MaxSignals) + 1, input))]
        /\ UNCHANGED valve

\* Valved::new(stream): Valve::new, then wrap; the Valve is a temporary.
ValvedNewIn(lineages) ==
    \E g \in lineages, s \in Streams, input \in StreamInputs :
        /\ FreeSignal(g) /\ FreeStream(s)
        /\ signal' = [signal EXCEPT ![g] = TripwireNew]
        /\ trigger' = [trigger EXCEPT ![g] = "live"]
        /\ valved' = [valved EXCEPT ![s] = NewValved(g, "new", Wrap(g, input))]
        /\ UNCHANGED valve

ValvedNew == ValvedNewIn(Signals)

\* A faulty clone: the copy watches the tripwire of another lineage.
CloneOtherTripwire(tu) == [tu EXCEPT !.until = (@ % MaxSignals) + 1]

\* Valved::clone (derived, for a wrapped stream that is Clone): field 0, the
\* TakeUntil, is cloned: a copy of the stream with its cursor where it stands,
\* and a clone of the Tripwire.
CloneTakeUntil(tu) == tu

\* The clone is a Valved of its own: nobody has polled it, and the waker the
\* original registered is not the clone's.
ValvedClone ==
    \E s \in Streams, s2 \in Streams :
        /\ valved[s].st = "live" /\ valved[s].pc = "idle" /\ FreeStream(s2)
        /\ valved' = [valved EXCEPT ![s2] =
                NewValved(valved[s].origin, "clone", CloneTakeUntil(valved[s].tu))]
        /\ UNCHANGED <<signal, trigger, valve>>

----------------------------------------------------------------------------
\* No result yet: the poll goes on to its next step.
Continue == <<"Continue", 0>>

\* A Tripwire clone polled as a future: pending while Armed, complete once
\* Fired.
TripwirePoll(sg) == IF sg.state = "Fired" THEN "complete" ELSE "pending"

\* TakeUntil::poll_next, one step of it.  pc names the step:
\*   "idle"      entry: a finished TakeUntil answers end-of-data; otherwise
\*               the signal's flag is read, and a fired signal ends the stream
\*               without touching the wrapped stream;
\*   "register"  under the registry's lock the flag is read again; Armed: the
\*               task's waker is registered and the signal reports pending;
\*   "stream"    the wrapped stream is polled and its answer is returned; its
\*               end-of-data finishes the TakeUntil.
\* The answer: the TakeUntil afterwards, the next step, the result (Continue
\* while the poll is under way), whether the waker is to be registered, and
\* what the wrapped stream answered if it was asked.
TakeUntilStep(tu, pc, sg, ready) ==
    IF pc = "idle" THEN
        IF tu.done
        THEN [tu |-> tu, pc |-> "idle", res |-> EndOfData,
              register |-> FALSE, src |-> Continue]
        ELSE IF TripwirePoll(sg) = "complete"
        THEN [tu |-> [tu EXCEPT !.done = TRUE], pc |-> "idle", res |-> EndOfData,
              register |-> FALSE, src |-> Continue]
        ELSE [tu |-> tu, pc |-> "register", res |-> Continue,
              register |-> FALSE, src |-> Continue]
    ELSE IF pc = "register" THEN
        IF TripwirePoll(sg) = "complete"
        THEN [tu |-> [tu EXCEPT !.done = TRUE], pc |-> "idle", res |-> EndOfData,
              register |-> FALSE, src |-> Continue]
        ELSE [tu |-> tu, pc |-> "stream", res |-> Continue,
              register |-> TRUE, src |-> Continue]
    ELSE
        LET r == StreamPollNext(tu.stream, ready) IN
        [tu |-> [tu EXCEPT !.stream = r.stream, !.done = (r.res = EndOfData)],
         pc |-> "idle", res |-> r.res, register |-> FALSE, src |-> r.res]

\* A faulty poll_next: the wrapped stream is polled directly, past the
\* TakeUntil and its Tripwire.
PollStreamDirectly(v, sg, ready) ==
    LET r == StreamPollNext(v.tu.stream, ready) IN
    [tu |-> [v.tu EXCEPT !.stream = r.stream], pc |-> "idle", res |-> r.res,
     register |-> FALSE, src |-> r.res]

\* A faulty poll_next: an item the TakeUntil hands back is not returned.
PollDropsItem(v, sg, ready) ==
    LET r == TakeUntilStep(v.tu, v.pc, sg, ready) IN
    [r EXCEPT !.res = IF IsItem(r.res) THEN Pending ELSE r.res]

\* A faulty poll_next: the TakeUntil is polled with a waker that wakes nobody.
PollWithoutWaker(v, sg, ready) ==
    [TakeUntilStep(v.tu, v.pc, sg, ready) EXCEPT !.register = FALSE]

\* A faulty poll_next: a wrapped stream with an item at hand is served before
\* the TakeUntil is asked.
PollStreamFirst(v, sg, ready) ==
    IF v.pc = "idle" /\ ~v.tu.done /\ IsItem(StreamPollNext(v.tu.stream, TRUE).res)
    THEN PollStreamDirectly(v, sg, TRUE)
    ELSE TakeUntilStep(v.tu, v.pc, sg, ready)

\* Valved::poll_next: the poll is forwarded to the TakeUntil in field 0, and
\* its answer is returned as it is.
ValvedPollNext(v, sg, ready) == TakeUntilStep(v.tu, v.pc, sg, ready)

\* The task polling a Valved after a step of its poll: a task that got an
\* item goes on consuming, one that got end-of-data is finished, and one that
\* got Pending sleeps unless it was woken meanwhile.
RunnableAfter(was, r) ==
    IF r.pc # "idle" THEN was
    ELSE IF IsItem(r.res) THEN TRUE
    ELSE IF r.res = EndOfData THEN FALSE
    ELSE was

\* A faulty poll_next: when the wrapped stream ends, the signal is fired.
PollStepFiresOnEnd(s, ready, was) ==
    LET v == valved[s]
        g == v.tu.until
        r == ValvedPollNext(v, signal[g], ready)
    IN  /\ valved' = [valved EXCEPT ![s] =
                [v EXCEPT !.tu = r.tu,
                          !.pc = r.pc,
                          !.out = IF r.res = Continue THEN @ ELSE Append(@, r.res),
                          !.inner = IF r.src = Continue THEN @ ELSE Append(@, r.src),
                          !.runnable = RunnableAfter(was, r)]]
        /\ signal' = IF r.register
                     THEN [signal EXCEPT ![g].waiters = @ \cup {s}]
                     ELSE IF r.src = EndOfData
                          THEN [signal EXCEPT ![g].state = "Fired"]
                          ELSE signal
        /\ UNCHANGED <<trigger, valve>>

\* The effect of one step of a poll of Valved s.
PollStep(s, ready, was) ==
    LET v == valved[s]
        g == v.tu.until
        r == ValvedPollNext(v, signal[g], ready)
    IN  /\ valved' = [valved EXCEPT ![s] =
                [v EXCEPT !.tu = r.tu,
                          !.pc = r.pc,
                          !.out = IF r.res = Continue THEN @ ELSE Append(@, r.res),
                          !.inner = IF r.src = Continue THEN @ ELSE Append(@, r.src),
                          !.runnable = RunnableAfter(was, r)]]
        /\ signal' = IF r.register
                     THEN [signal EXCEPT ![g].waiters = @ \cup {s}]
                     ELSE signal
        /\ UNCHANGED <<trigger, valve>>

\* The polls answered so far, over all streams (the model's cap counts them).
RECURSIVE SumPolls(_)
SumPolls(n) == IF n = 0 THEN 0 ELSE Len(valved[n].out) + SumPolls(n - 1)
PollsSoFar == SumPolls(MaxStreams)

\* A poll of Valved s begins (the scheduler, or any caller, polls it).
PollStart(s) ==
    /\ valved[s].st = "live" /\ valved[s].pc = "idle"
    /\ \/ PollsSoFar < MaxPolls
       \/ signal[valved[s].tu.until].state = "Fired" /\ ~valved[s].tu.done
    /\ PollStep(s, TRUE, FALSE)

\* The poll registers its waker with the signal.
PollRegister(s) ==
    /\ valved[s].st = "live" /\ valved[s].pc = "register"
    /\ PollStep(s, TRUE, valved[s].runnable)

\* The poll asks the wrapped stream, which is ready or not.
PollStream(s) ==
    /\ valved[s].st = "live" /\ valved[s].pc = "stream"
    /\ \E ready \in BOOLEAN : PollStep(s, ready, valved[s].runnable)

\* The wrapped stream, having answered Pending, wakes the task.
SourceWake(s) ==
    /\ valved[s].st = "live" /\ valved[s].pc = "idle"
    /\ ~valved[s].runnable /\ ~valved[s].tu.done
    /\ valved[s].out # << >> /\ valved[s].out[Len(valved[s].out)] = Pending
    /\ PollsSoFar < MaxPolls
    /\ valved' = [valved EXCEPT ![s].runnable = TRUE]
    /\ UNCHANGED <<signal, trigger, valve>>

\* A faulty drop: a Drop impl of Valved that fires the signal it watches.
DropValvedFires(sg, s) == [sg EXCEPT !.state = "Fired", !.waiters = @ \ {s}]

\* A faulty drop: the waker the Valved registered stays in the registry.
DropValvedLeavesWaker(sg, s) == sg

\* Dropping a Valved (it has no Drop impl of its own) drops its one field:
\* the stream and the Tripwire clone go, and with the clone the waker it had
\* registered.  The signal the clone watched, afterwards:
DropValved(sg, s) == [sg EXCEPT !.waiters = @ \ {s}]

ValvedDrop(s) ==
    /\ valved[s].st = "live" /\ valved[s].pc = "idle"
    /\ valved' = [valved EXCEPT ![s] = DroppedValved]
    /\ signal' = [signal EXCEPT ![valved[s].tu.until] = DropValved(@, s)]
    /\ UNCHANGED <<trigger, valve>>

----------------------------------------------------------------------------
\* Trigger::close, first half: the state moves Armed -> Fired.
Fire(sg) == [sg EXCEPT !.state = "Fired"]

\* Trigger::close, second half: the registry is emptied, every task in it woken.
Woken(v, s, sg) ==
    IF s \in sg.waiters /\ v.st = "live" THEN [v EXCEPT !.runnable = TRUE] ELSE v

CloseFire(g) ==
    /\ trigger[g] = "live"
    /\ signal' = [signal EXCEPT ![g] = Fire(@)]
    /\ trigger' = [trigger EXCEPT ![g] = "closing"]
    /\ UNCHANGED <<valve, valved>>

CloseWake(g) ==
    /\ trigger[g] = "closing"
    /\ valved' = [s \in Streams |-> Woken(valved[s], s, signal[g])]
    /\ signal' = [signal EXCEPT ![g].waiters = {}]
    /\ trigger' = [trigger EXCEPT ![g] = "closed"]
    /\ UNCHANGED valve

\* Dropping a Trigger without close: the signal is left as it is.
TriggerDrop(g) ==
    /\ trigger[g] = "live"
    /\ trigger' = [trigger EXCEPT ![g] = "dropped"]
    /\ UNCHANGED <<signal, valve, valved>>

----------------------------------------------------------------------------
Next ==
    \/ ValveNew
    \/ ValveClone
    \/ ValveDrop
    \/ ValveWrap
    \/ ValvedNew
    \/ ValvedClone
    \/ \E s \in Streams : PollStart(s)
    \/ \E s \in Streams : PollRegister(s)
    \/ \E s \in Streams : PollStream(s)
    \/ \E s \in Streams : SourceWake(s)
    \/ \E s \in Streams : ValvedDrop(s)
    \/ \E g \in Signals : CloseFire(g)
    \/ \E g \in Signals : CloseWake(g)
    \/ \E g \in Signals : TriggerDrop(g)

Spec == Init /\ [][Next]_vars

\* The scheduler polls a woken task, a poll under way runs to its end, and a
\* close that has begun completes.
Fairness ==
    /\ \A s \in Streams : WF_vars(valved[s].runnable /\ PollStart(s))
    /\ \A s \in Streams : WF_vars(PollRegister(s))
    /\ \A s \in Streams : WF_vars(PollStream(s))
    /\ \A g \in Signals : WF_vars(CloseWake(g))

\* The fair scheduler is checked on the lineages 1..MaxFairSignals.
FairNext ==
    \/ ValveNewIn(1..MaxFairSignals)
    \/ ValveClone
    \/ ValveDrop
    \/ ValveWrap
    \/ ValvedNewIn(1..MaxFairSignals)
    \/ ValvedClone
    \/ \E s \in Streams : PollStart(s)
    \/ \E s \in Streams : PollRegister(s)
    \/ \E s \in Streams : PollStream(s)
    \/ \E s \in Streams : SourceWake(s)
    \/ \E s \in Streams : ValvedDrop(s)
    \/ \E g \in Signals : CloseFire(g)
    \/ \E g \in Signals : CloseWake(g)
    \/ \E g \in Signals : TriggerDrop(g)

FairSpec == Init /\ [][FairNext]_vars /\ Fairness

----------------------------------------------------------------------------
\* Vocabulary of the properties.
Live(s) == valved[s].st = "live"
Last(seq) == seq[Len(seq)]

\* Trigger::close has been called on lineage g's Trigger.
CloseCalled(g) == trigger[g] \in {"closing", "closed"}

\* The wrapped stream of s still has an item to give.
HasItem(s) ==
    valved[s].tu.stream.endless \/ valved[s].tu.stream.pos < valved[s].tu.stream.len

\* The items a wrapped stream produces first, n of them.
RECURSIVE Prefix(_)
Prefix(n) == IF n = 0 THEN << >> ELSE Append(Prefix(n - 1), Item(n))

\* The items among a sequence of poll results.
RECURSIVE ItemsOf(_)
ItemsOf(seq) ==
    IF seq = << >> THEN << >>
    ELSE IF IsItem(Head(seq)) THEN <<Head(seq)>> \o ItemsOf(Tail(seq))
         ELSE ItemsOf(Tail(seq))

\* seq is n end-of-data answers, for some n >= 0.
AllEnd(seq) == \A i \in 1..Len(seq) : seq[i] = EndOfData

\* seq is pre followed by end-of-data answers only.
EndsAfter(seq, pre) ==
    /\ Len(seq) >= Len(pre)
    /\ SubSeq(seq, 1, Len(pre)) = pre
    /\ AllEnd(SubSeq(seq, Len(pre) + 1, Len(seq)))

\* What a poll of s beginning now would do (s idle), by poll_next.
NextPoll(s, ready) ==
    ValvedPollNext(valved[s], signal[valved[s].tu.until], ready)

\* C1: a poll of a Valved that begins after Trigger::close was called on the
\* Trigger of the Valve it was built from returns end-of-data, and the
\* wrapped stream is not asked then or ever after, whatever it has ready.
C1_PollAfterCloseEnds ==
    [][\A s \in Streams :
        (Live(s) /\ valved[s].pc = "idle" /\ CloseCalled(valved[s].origin)
            /\ valved'[s].st = "live")
        => /\ valved'[s].pc = "idle"
           /\ \/ valved'[s].out = valved[s].out
              \/ valved'[s].out = Append(valved[s].out, EndOfData)
           /\ valved'[s].inner = valved[s].inner
           /\ valved'[s].tu.stream = valved[s].tu.stream]_vars

\* The spec's scenario: one item polled, close, the next poll ends the stream
\* although the wrapped stream has item 2 at hand.
C1_Witness ==
    \E s \in Streams :
        /\ Live(s) /\ CloseCalled(valved[s].origin) /\ HasItem(s)
        /\ valved[s].out = <<Item(1), EndOfData>>

\* C2: while the signal is Armed, a Valved has returned exactly what its
\* wrapped stream answered to the same polls, Pending included; and once the
\* wrapped stream ended, where it answers end-of-data to any poll, end-of-data
\* (the clone of a Valved that had ended holds a stream at its end from the
\* start).
C2_TransparentWhileArmed ==
    \A s \in Streams :
        (Live(s) /\ signal[valved[s].origin].state = "Armed")
        => /\ EndsAfter(valved[s].out, valved[s].inner)
           /\ Len(valved[s].out) > Len(valved[s].inner)
                => /\ IF valved[s].inner = << >>
                      THEN valved[s].made = "clone"
                      ELSE Last(valved[s].inner) = EndOfData
                   /\ StreamPollNext(valved[s].tu.stream, TRUE).res = EndOfData
           /\ ItemsOf(valved[s].out)
                = SubSeq(Prefix(valved[s].tu.stream.pos),
                         valved[s].start + 1, valved[s].tu.stream.pos)

C2_Witness ==
    \E s \in Streams :
        /\ Live(s) /\ signal[valved[s].origin].state = "Armed"
        /\ valved[s].out = <<Pending, Item(1)>>

\* C3: for an endless wrapped stream, once close is called after exactly n
\* polls that each returned an item, the Valved has for ever yielded those n
\* items and after them end-of-data only (n = 0: no item at all).
ClosedAfter(s, n) ==
    /\ Live(s) /\ valved[s].tu.stream.endless
    /\ valved[s].pc = "idle" /\ CloseCalled(valved[s].origin)
    /\ EndsAfter(valved[s].out, Prefix(n))

C3_ExactlyNItems ==
    [][\A s \in Streams : \A n \in 0..(MaxPolls + 1) :
        (ClosedAfter(s, n) /\ valved'[s].st = "live") => ClosedAfter(s, n)']_vars

C3_Witness ==
    \E s1, s2 \in Streams :
        /\ ClosedAfter(s1, 0) /\ valved[s1].out = <<EndOfData>>
        /\ ClosedAfter(s2, 1) /\ valved[s2].out = <<Item(1), EndOfData>>

\* C4: the signal only moves Armed -> Fired.  Before close is called every
\* Tripwire clone (the signal's own handle, and the clone inside each Valved
\* built from the lineage) reports pending; from the call on, every clone,
\* old or made afterwards, reports complete, and still does after any step.
ClonesReport(g, what) ==
    /\ TripwirePoll(signal[g]) = what
    /\ \A s \in Streams :
        (Live(s) /\ valved[s].origin = g)
            => TripwirePoll(signal[valved[s].tu.until]) = what

C4_FiredForGood ==
    [][\A g \in Signals :
        /\ CloseCalled(g) => ClonesReport(g, "complete") /\ ClonesReport(g, "complete")'
        /\ ~CloseCalled(g) => ClonesReport(g, "pending")
        /\ signal[g].state = "Fired" => signal'[g].state = "Fired"]_vars

\* A Valved wrapped after the close holds a clone that reports complete.
C4_Witness ==
    \E g \in Signals, s1, s2 \in Streams :
        /\ trigger[g] = "closed" /\ s1 # s2
        /\ Live(s1) /\ valved[s1].origin = g /\ valved[s1].tu.done
        /\ Live(s2) /\ valved[s2].origin = g /\ valved[s2].out = << >>
        /\ ClonesReport(g, "complete")

\* C5: after one close, each of two Valveds built from the same Valve (or
\* clones of it) ends at its next poll, whichever of them was polled before.
EndsAtNextPoll(s) ==
    \A ready \in BOOLEAN :
        /\ NextPoll(s, ready).res = EndOfData
        /\ NextPoll(s, ready).tu.done
        /\ NextPoll(s, ready).pc = "idle"

C5_SiblingsShareFate ==
    \A s1, s2 \in Streams :
        (/\ s1 # s2 /\ Live(s1) /\ Live(s2)
         /\ valved[s1].origin = valved[s2].origin
         /\ CloseCalled(valved[s1].origin)
         /\ valved[s1].pc = "idle" /\ valved[s2].pc = "idle")
        => EndsAtNextPoll(s1) /\ EndsAtNextPoll(s2)

\* One sibling was polled before the close and the other never; both ended.
C5_Witness ==
    \E s1, s2 \in Streams :
        /\ s1 # s2 /\ Live(s1) /\ Live(s2)
        /\ valved[s1].origin = valved[s2].origin
        /\ trigger[valved[s1].origin] = "closed"
        /\ valved[s1].out = <<Item(1), EndOfData>>
        /\ valved[s2].out = <<EndOfData>> /\ HasItem(s2)

\* C6: no lost wakeup.  A task that polled a Valved and sleeps on a Pending
\* answer when close completes has been woken by it; so, with a fair
\* scheduler, every Valved that was ever polled and is still there ends after
\* the close, even if its wrapped stream never gives another item.
Parked(s) ==
    /\ Live(s) /\ valved[s].pc = "idle" /\ ~valved[s].tu.done
    /\ valved[s].out # << >> /\ Last(valved[s].out) = Pending

C6_NoLostWakeup ==
    \A s \in Streams :
        /\ [](Parked(s) /\ trigger[valved[s].origin] = "closed"
                => valved[s].runnable)
        /\ [](Live(s) /\ valved[s].out # << >> /\ CloseCalled(valved[s].origin)
                => <>(~Live(s) \/ valved[s].tu.done))

\* A task parked on an endless stream that gave nothing was woken by the close
\* and observed the end.
C6_Witness ==
    \E s \in Streams :
        /\ Live(s) /\ trigger[valved[s].origin] = "closed"
        /\ valved[s].tu.stream.endless
        /\ valved[s].out = <<Pending, EndOfData>>

\* C7: once a poll of one instance has observed the fire, a poll of another
\* instance built from the same lineage that begins afterwards, or that has
\* yet to register, observes complete, never pending.  An instance has
\* observed the fire when it is finished although its wrapped stream did not
\* end (a clone of a finished instance is finished as its original was).
ObservedFire(s) ==
    /\ Live(s) /\ valved[s].tu.done
    /\ IF valved[s].inner # << >> THEN Last(valved[s].inner) # EndOfData
       ELSE IF valved[s].made # "clone" THEN TRUE
       ELSE StreamPollNext(valved[s].tu.stream, TRUE).res # EndOfData

C7_FireLinearizable ==
    \A s1, s2 \in Streams :
        (/\ s1 # s2 /\ ObservedFire(s1) /\ Live(s2)
         /\ valved[s1].origin = valved[s2].origin
         /\ valved[s2].pc \in {"idle", "register"})
        => /\ NextPoll(s2, TRUE).res = EndOfData
           /\ ~NextPoll(s2, TRUE).register

\* s1 saw the fire while a poll of s2, begun before it, had yet to register.
C7_Witness ==
    \E s1, s2 \in Streams :
        /\ s1 # s2 /\ ObservedFire(s1) /\ Live(s2)
        /\ valved[s1].origin = valved[s2].origin
        /\ valved[s2].pc = "register" /\ HasItem(s2)

\* C8: a Trigger dropped without close leaves its signal Armed: the Valveds
\* built from it go on answering what their wrapped streams answer, and end
\* only with the wrapped stream's own end-of-data.
C8_DropNeverFires ==
    \A g \in Signals :
        trigger[g] = "dropped"
        => /\ signal[g].state = "Armed"
           /\ \A s \in Streams :
                (Live(s) /\ valved[s].origin = g)
                => /\ EndsAfter(valved[s].out, valved[s].inner)
                   /\ valved[s].tu.done
                        => /\ IF valved[s].inner = << >>
                              THEN valved[s].made = "clone"
                              ELSE Last(valved[s].inner) = EndOfData
                           /\ StreamPollNext(valved[s].tu.stream, TRUE).res
                                = EndOfData
                   /\ (valved[s].pc = "idle" /\ ~valved[s].tu.done)
                        => NextPoll(s, TRUE).res = Continue

\* After the drop one Valved gave an item and another reached its own end.
C8_Witness ==
    \E g \in Signals, s1, s2 \in Streams :
        /\ trigger[g] = "dropped" /\ s1 # s2
        /\ Live(s1) /\ valved[s1].origin = g /\ valved[s1].out = <<Item(1)>>
        /\ Live(s2) /\ valved[s2].origin = g /\ valved[s2].out = <<EndOfData>>

\* C9: dropping a Valved, its signal Armed or Fired, changes neither any
\* signal's state, nor any Trigger, nor any other Valved.
C9_DropLeavesOthers ==
    [][\A s \in Streams :
        (Live(s) /\ valved'[s].st = "dropped")
        => /\ \A g \in Signals : signal'[g].state = signal[g].state
           /\ trigger' = trigger
           /\ \A s2 \in Streams \ {s} : valved'[s2] = valved[s2]]_vars

\* A Valved was dropped while Armed, its sibling then gave an item, and the
\* Trigger was closed afterwards.
C9_Witness ==
    \E s1, s2 \in Streams :
        /\ valved[s1].st = "dropped" /\ Live(s2)
        /\ trigger[valved[s2].origin] = "closed"
        /\ valved[s2].out = <<Item(1), EndOfData>>

\* C10: once the wrapped stream has answered end-of-data, every later poll of
\* the Valved answers end-of-data without asking the wrapped stream again,
\* whether the signal is fired or not.
EndedNaturally(s) ==
    /\ Live(s) /\ valved[s].pc = "idle"
    /\ valved[s].inner # << >> /\ Last(valved[s].inner) = EndOfData

C10_NaturalEndAbsorbing ==
    [][\A s \in Streams :
        (EndedNaturally(s) /\ valved'[s].st = "live")
        => /\ EndedNaturally(s)'
           /\ valved'[s].inner = valved[s].inner
           /\ \/ valved'[s].out = valved[s].out
              \/ valved'[s].out = Append(valved[s].out, EndOfData)]_vars

\* The wrapped stream ended, and the next poll, the signal Armed, ended too.
C10_Witness ==
    \E s \in Streams :
        /\ EndedNaturally(s) /\ signal[valved[s].origin].state = "Armed"
        /\ valved[s].inner = <<EndOfData>>
        /\ valved[s].out = <<EndOfData, EndOfData>>

\* C11: the pair returned by Valved::new(stream) is the pair Valve::new()
\* followed by wrap(stream) gives: a live Trigger on a fresh Armed signal with
\* no waiter, and a Valved that nobody polled, watching that very signal with
\* the stream at its beginning.  Hence a close on the returned Trigger ends the
\* Valved at its next poll, and before the close it answers what the wrapped
\* stream answers.
MadeByNew(s) == Live(s) /\ valved[s].made = "new"

AsValveNewThenWrap(s) ==
    \E g \in Signals, input \in StreamInputs :
        /\ trigger[g] = "none" /\ trigger' = [trigger EXCEPT ![g] = "live"]
        /\ signal' = [signal EXCEPT ![g] = [state |-> "Armed", waiters |-> {}]]
        /\ valve' = valve
        /\ valved' = [valved EXCEPT ![s] =
                [st |-> "live", origin |-> g, made |-> "new",
                 late |-> FALSE, start |-> 0,
                 pc |-> "idle", runnable |-> FALSE,
                 out |-> << >>, inner |-> << >>,
                 tu |-> [stream |-> input, until |-> g, done |-> FALSE]]]

C11_ValvedNewIsValveNewThenWrap ==
    [][\A s \in Streams :
        /\ (~MadeByNew(s) /\ MadeByNew(s)') => AsValveNewThenWrap(s)
        /\ (MadeByNew(s) /\ MadeByNew(s)' /\ valved[s].pc = "idle")
            => /\ CloseCalled(valved[s].origin) => EndsAtNextPoll(s)
               /\ (signal[valved[s].origin].state = "Armed" /\ ~valved[s].tu.done)
                    => NextPoll(s, TRUE).res = Continue
               /\ signal'[valved[s].origin].state = "Armed"
                    => EndsAfter(valved'[s].out, valved'[s].inner)]_vars

\* A Valved made by Valved::new gave an item, the returned Trigger was closed,
\* and the next poll ended it although the wrapped stream had more.
C11_Witness ==
    \E s \in Streams :
        /\ MadeByNew(s) /\ trigger[valved[s].origin] = "closed"
        /\ valve[valved[s].origin] = 0 /\ HasItem(s)
        /\ valved[s].out = <<Item(1), EndOfData>>

\* C12: a Valved wrapped by a Valve, or by a clone of it, after the close of
\* the lineage's Trigger yields no item: its first poll and every later one
\* answer end-of-data and never ask the wrapped stream, whatever it holds.
WrappedLate(s) == Live(s) /\ valved[s].made = "wrap" /\ valved[s].late

YieldsNothing(s) ==
    /\ valved[s].pc = "idle" /\ AllEnd(valved[s].out)
    /\ valved[s].inner = << >> /\ valved[s].tu.stream.pos = 0

C12_WrappedAfterCloseIsEmpty ==
    [][\A s \in Streams :
        /\ (valved[s].st = "none" /\ valved'[s].made = "wrap"
                /\ CloseCalled(valved'[s].origin))
            => WrappedLate(s)'
        /\ WrappedLate(s)'
            => /\ YieldsNothing(s)'
               /\ EndsAtNextPoll(s)'
               /\ WrappedLate(s)
                    => \/ valved'[s].out = valved[s].out
                       \/ valved'[s].out = Append(valved[s].out, EndOfData)]_vars

\* A Valved wrapped after the close, over a stream with an item at hand, was
\* polled twice and answered end-of-data twice.
C12_Witness ==
    \E s \in Streams :
        /\ WrappedLate(s) /\ HasItem(s)
        /\ valved[s].out = <<EndOfData, EndOfData>>

\* C13: Valve::wrap changes nothing observable.  The Valve is still there
\* and can wrap again, every wrapped stream watching its one signal; signal
\* states, waiter registries, Triggers and the other Valveds are as before;
\* the wrapped stream is handed over at its beginning, and is asked for the
\* first time only by a poll of the Valved returned.
WrapStep(s) == valved[s].st = "none" /\ valved'[s].made = "wrap"

Unpolled(s) ==
    /\ valved[s].pc = "idle" /\ valved[s].out = << >> /\ valved[s].inner = << >>
    /\ valved[s].tu.stream.pos = valved[s].start /\ ~valved[s].tu.done
    /\ ~valved[s].runnable
    /\ \A g \in Signals : s \notin signal[g].waiters

C13_WrapChangesNothing ==
    [][\A s \in Streams :
        /\ WrapStep(s)
            => /\ signal' = signal /\ trigger' = trigger /\ valve' = valve
               /\ valve[valved'[s].origin] > 0
               /\ valved'[s].tu.until = valved'[s].origin
               /\ \A s2 \in Streams \ {s} : valved'[s2] = valved[s2]
               /\ valved'[s].tu.stream \in StreamInputs
               /\ Live(s)' /\ Unpolled(s)'
        /\ (Live(s) /\ valved[s].inner = << >> /\ valved'[s].inner # << >>)
            => valved[s].pc = "stream"]_vars

\* One Valve handle wrapped two streams, one of which gave an item; the one
\* close ended both.
C13_Witness ==
    \E g \in Signals, s1, s2 \in Streams :
        /\ s1 < s2 /\ valve[g] = 1 /\ trigger[g] = "closed"
        /\ \A s \in {s1, s2} :
            Live(s) /\ valved[s].made = "wrap" /\ valved[s].origin = g
        /\ valved[s1].out = <<Item(1), EndOfData>>
        /\ valved[s2].out = <<EndOfData>> /\ HasItem(s2)

\* C14: Trigger::close is safe without listeners.  When every Valve and
\* Valved of the lineage has been dropped, or no Valved of it was ever
\* polled, no waker is registered; close can still be called and can still
\* complete, it moves the signal to Fired, and it wakes nobody.
NoListeners(g) ==
    \/ /\ valve[g] = 0
       /\ \A s \in Streams : Live(s) => valved[s].origin # g
    \/ /\ \A s \in Streams : valved[s].st # "dropped"
       /\ \A s \in Streams : (Live(s) /\ valved[s].origin = g) => Unpolled(s)

C14_CloseSafeWithoutListeners ==
    [][\A g \in Signals :
        (trigger[g] \in {"live", "closing"} /\ NoListeners(g))
        => /\ signal[g].waiters = {}
           /\ trigger[g] = "live" => ENABLED CloseFire(g)
           /\ trigger[g] = "closing" => ENABLED CloseWake(g)
           /\ trigger'[g] # trigger[g]
                => /\ trigger'[g] \in {"closing", "closed", "dropped"}
                   /\ CloseCalled(g)' => signal'[g].state = "Fired"
                   /\ valved' = valved /\ valve' = valve
                   /\ \A g2 \in Signals \ {g} : signal'[g2] = signal[g2]]_vars

\* The Valve and the Valved of the only lineage were dropped, then the
\* Trigger was closed.
C14_Witness ==
    /\ trigger[1] = "closed" /\ signal[1] = [state |-> "Fired", waiters |-> {}]
    /\ valve[1] = 0 /\ valved[1].st = "dropped"
    /\ \A g \in Signals \ {1} : trigger[g] = "none"
    /\ \A s \in Streams \ {1} : valved[s].st = "none"

\* C15: the clone of a Valved is a second Valved with a cursor of its own and
\* the fate of the first.  The clone starts where the original stands and
\* watches the same signal, and making it changes nothing else; a poll of one
\* of the two leaves the other as it was, so each yields the items from its
\* own starting point on; and after one close both end at their next poll.
IsClone(s) == Live(s) /\ valved[s].made = "clone"

ItemsFromStart(s) ==
    ItemsOf(valved[s].out)
        = SubSeq(Prefix(valved[s].tu.stream.pos),
                 valved[s].start + 1, valved[s].tu.stream.pos)

PollOf(s) ==
    /\ Live(s) /\ Live(s)'
    /\ \/ valved'[s].pc # valved[s].pc
       \/ valved'[s].out # valved[s].out
       \/ valved'[s].tu # valved[s].tu

C15_CloneOwnCursorSharedFate ==
    [][\A s2 \in Streams :
        /\ (valved[s2].st = "none" /\ IsClone(s2)')
            => /\ \E s1 \in Streams \ {s2} :
                    /\ Live(s1) /\ valved[s1].pc = "idle"
                    /\ valved'[s2].tu = valved[s1].tu
                    /\ valved'[s2].origin = valved[s1].origin
                    /\ valved'[s2].tu.until = valved[s1].origin
                    /\ valved'[s2].start = valved[s1].tu.stream.pos
               /\ valved'[s2].pc = "idle" /\ ~valved'[s2].runnable
               /\ valved'[s2].out = << >> /\ valved'[s2].inner = << >>
               /\ \A s \in Streams \ {s2} : valved'[s] = valved[s]
               /\ signal' = signal /\ trigger' = trigger /\ valve' = valve
        /\ IsClone(s2)'
            => /\ ItemsFromStart(s2)'
               /\ \A s1 \in Streams \ {s2} :
                    (Live(s1)' /\ valved'[s1].origin = valved'[s2].origin)
                    => /\ ItemsFromStart(s1)'
                       /\ (PollOf(s1) /\ IsClone(s2)) => valved'[s2] = valved[s2]
                       /\ (PollOf(s2) /\ IsClone(s2)) => valved'[s1] = valved[s1]
                       /\ (CloseCalled(valved[s2].origin)'
                            /\ valved'[s1].pc = "idle" /\ valved'[s2].pc = "idle")
                            => EndsAtNextPoll(s1)' /\ EndsAtNextPoll(s2)']_vars

\* An endless stream gave item 1, was cloned, and the clone gave item 2 while
\* the original stayed at item 1; one close ended both.
C15_Witness ==
    \E s1, s2 \in Streams :
        /\ Live(s1) /\ IsClone(s2) /\ valved[s1].origin = valved[s2].origin
        /\ valved[s1].made # "clone" /\ valved[s2].start = 1
        /\ trigger[valved[s1].origin] = "closed"
        /\ valved[s1].out = <<Item(1), EndOfData>> /\ valved[s1].tu.stream.pos = 1
        /\ valved[s2].out = <<Item(2), EndOfData>> /\ valved[s2].tu.stream.pos = 2

\* C16: a signal goes from Armed to Fired at most once, and only by
\* Trigger::close on the one Trigger made together with it: the step that
\* fires it is the call of close on a Trigger that was live until then, which
\* is used up by it, and no step that changes a Valve or a Valved, drops the
\* Trigger or touches another lineage's Trigger fires it; once Fired, the
\* signal stays Fired and its Trigger stays used up.
Fires(g) == signal[g].state = "Armed" /\ signal'[g].state = "Fired"

C16_OnlyCloseFiresOnce ==
    [][\A g \in Signals :
        /\ Fires(g)
            => /\ trigger[g] = "live" /\ trigger'[g] = "closing"
               /\ valved' = valved /\ valve' = valve
               /\ \A g2 \in Signals \ {g} :
                    trigger'[g2] = trigger[g2] /\ signal'[g2] = signal[g2]
        /\ signal[g].state = "Fired"
            => signal'[g].state = "Fired" /\ CloseCalled(g) /\ CloseCalled(g)'
        /\ trigger[g] \in {"closing", "closed", "dropped"} => ~Fires(g)
        /\ trigger'[g] = "live" => trigger[g] \in {"none", "live"}]_vars

\* One lineage was wrapped, cloned, polled, had a Valved dropped and was
\* closed; the other had its Trigger dropped and is Armed.
C16_Witness ==
    \E g, g2 \in Signals, s1, s2 \in Streams :
        /\ trigger[g] = "closed" /\ signal[g].state = "Fired"
        /\ trigger[g2] = "dropped" /\ signal[g2].state = "Armed"
        /\ valved[s1].st = "dropped"
        /\ IsClone(s2) /\ valved[s2].origin = g
        /\ valved[s2].out = <<Item(1), EndOfData>>

\* C17: however polls and close interleave, what a Valved has yielded is a
\* prefix of what its wrapped stream produces (from where the Valved started),
\* and the items taken from the wrapped stream are the items yielded, one for
\* one: no item is taken and then withheld because the signal fired.
C17_YieldedIsPrefixNothingLost ==
    \A s \in Streams :
        Live(s)
        => /\ ItemsFromStart(s)
           /\ ItemsOf(valved[s].out) = ItemsOf(valved[s].inner)
           /\ Len(ItemsOf(valved[s].inner))
                = valved[s].tu.stream.pos - valved[s].start

\* The close came while a poll of s1 had registered and was about to ask its
\* stream; a sibling gave its item and ended at the poll after the close.
C17_Witness ==
    \E s1, s2 \in Streams :
        /\ s1 # s2 /\ Live(s1) /\ Live(s2)
        /\ valved[s1].origin = valved[s2].origin
        /\ signal[valved[s1].origin].state = "Fired"
        /\ valved[s1].pc = "stream" /\ HasItem(s1)
        /\ valved[s2].out = <<Item(1), EndOfData>> /\ HasItem(s2)

\* C18: lineages are isolated.  A Valved watches the signal of the
\* Valve::new (or Valved::new) call it comes from and no other; calling and
\* completing close on the Trigger of one lineage leaves the signals, the
\* Triggers and every Valved of the other lineages as they were, woken tasks
\* included; and a Valved whose own signal is Armed goes on asking its
\* wrapped stream, whatever was closed elsewhere.
CloseStep(g) == trigger'[g] # trigger[g] /\ CloseCalled(g)'

C18_LineagesIsolated ==
    [][\A g \in Signals :
        /\ CloseStep(g)
            => /\ \A g2 \in Signals \ {g} :
                    signal'[g2] = signal[g2] /\ trigger'[g2] = trigger[g2]
               /\ \A s \in Streams :
                    valved[s].origin # g => valved'[s] = valved[s]
        /\ \A s \in Streams :
            (Live(s)' /\ valved'[s].origin # g /\ CloseCalled(g)')
            => /\ valved'[s].tu.until = valved'[s].origin
               /\ s \notin signal'[g].waiters
               /\ (signal'[valved'[s].origin].state = "Armed"
                        /\ valved'[s].pc = "idle" /\ ~valved'[s].tu.done)
                    => NextPoll(s, TRUE)'.res = Continue]_vars

\* The first lineage was closed before the first Valved was wrapped; the
\* second Valved, made later by Valved::new, gave its item all the same.
C18_Witness ==
    \E s1, s2 \in Streams :
        /\ s1 < s2 /\ WrappedLate(s1) /\ MadeByNew(s2)
        /\ valved[s1].origin # valved[s2].origin
        /\ trigger[valved[s1].origin] = "closed"
        /\ trigger[valved[s2].origin] = "live"
        /\ valved[s1].out = <<EndOfData>>
        /\ valved[s2].out = <<Item(1)>>

\* C19: natural completion is local to one Valved.  The step in which the
\* wrapped stream of a Valved answers end-of-data finishes that Valved and
\* changes no signal, no Trigger, no Valve and no other Valved; so, as long
\* as close was not called, the signal is Armed and a sibling that has not
\* ended goes on asking its own wrapped stream.
StreamEnds(s) ==
    Live(s) /\ valved'[s].inner = Append(valved[s].inner, EndOfData)

C19_NaturalEndIsLocal ==
    [][\A s \in Streams :
        /\ StreamEnds(s)
            => /\ valved'[s].tu.done /\ valved'[s].pc = "idle"
               /\ signal' = signal /\ trigger' = trigger /\ valve' = valve
               /\ \A s2 \in Streams \ {s} : valved'[s2] = valved[s2]
        /\ (EndedNaturally(s)' /\ ~CloseCalled(valved[s].origin)')
            => /\ signal'[valved'[s].origin].state = "Armed"
               /\ \A s2 \in Streams \ {s} :
                    (/\ Live(s2)' /\ valved'[s2].origin = valved'[s].origin
                     /\ valved'[s2].pc = "idle" /\ ~valved'[s2].tu.done)
                    => NextPoll(s2, TRUE)'.res = Continue]_vars

\* One Valved reached its wrapped stream's end; its sibling gave an item,
\* and the signal is Armed with its Trigger live.
C19_Witness ==
    \E s1, s2 \in Streams :
        /\ s1 # s2 /\ EndedNaturally(s1) /\ Live(s2)
        /\ valved[s1].origin = valved[s2].origin
        /\ trigger[valved[s1].origin] = "live"
        /\ signal[valved[s1].origin].state = "Armed"
        /\ valved[s1].out = <<EndOfData>>
        /\ valved[s2].out = <<Item(1)>> /\ ~valved[s2].tu.done
====
